---- MODULE Spec2Model ----
(***************************************************************************)
(* inkscape-figures (src/inkscapefigures/main.py): the registry of figure  *)
(* roots (a newline-delimited text file), the `create` and `edit`          *)
(* commands that register roots, the exporter maybe_recompile_figure with  *)
(* its version probe, and the two watch daemons (inotify and fswatch).     *)
(*                                                                         *)
(* Text is a sequence of one-character strings, so that joining, splitting *)
(* and parsing are computed and not assumed.  A few fixed pieces of the    *)
(* LaTeX template and of the export command are kept as single tokens.     *)
(*                                                                         *)
(* What is left out: the directories named on the command line exist (the  *)
(* mkdir of line 325 and the failing add_watch of lines 248-251 never      *)
(* happen); the configuration directory is not itself registered as a      *)
(* root; latex_template is the built-in one (no config.py); only writes    *)
(* that are closed reach a daemon; print's closing line break is not       *)
(* recorded; `inkscape --version` itself does not fail.                    *)
(***************************************************************************)
EXTENDS Integers, Sequences, FiniteSets, TLC

VARIABLES
  roots_file,   \* text of the registry file  <user_dir>/roots
  svg,          \* the figures on disk: path |-> "template" or "edited"
  cli,          \* the `create` / `edit` processes
  inkscape,     \* the installed editor build: [comps, suffix]
  clipboard,    \* text last written with pyperclip.copy
  launched,     \* figure paths opened in the editor
  saves,        \* number of saves the user has made (bounded)
  dpc,          \* watch daemon, per backend: its position
  droots,       \* watch daemon: its local variable `roots`
  watches,      \* watch daemon: the paths it currently holds a watch on
  queue,        \* watch daemon: change notifications not yet read
  log,          \* watch daemon: what it did, in order (exports, rebuilds)
  did           \* what the latest call of maybe_recompile_figure did

vars == <<roots_file, svg, cli, inkscape, clipboard, launched, saves,
          dpc, droots, watches, queue, log, did>>

(***************************************************************************)
(* Bounds                                                                  *)
(***************************************************************************)
NumCli == 2      \* `create` / `edit` invocations in a run
MaxSaves == 2    \* saves made by the user in a run

Procs == 1..NumCli
Backends == {"inotify", "fswatch"}

(***************************************************************************)
(* Text                                                                    *)
(***************************************************************************)
NL == "\n"
SP == " "

RECURSIVE Split(_, _)
\* str.split(sep): the pieces between separators, empty pieces included.
Split(s, sep) ==
  IF \A i \in 1..Len(s) : s[i] # sep THEN <<s>>
  ELSE LET k == CHOOSE i \in 1..Len(s) :
                  s[i] = sep /\ \A j \in 1..(i - 1) : s[j] # sep
       IN  <<SubSeq(s, 1, k - 1)>> \o Split(SubSeq(s, k + 1, Len(s)), sep)

RECURSIVE Join(_, _)
\* sep.join(parts)
Join(parts, sep) ==
  IF parts = <<>> THEN <<>>
  ELSE IF Len(parts) = 1 THEN parts[1]
  ELSE parts[1] \o <<sep>> \o Join(Tail(parts), sep)

Range(s) == {s[i] : i \in 1..Len(s)}

Spaces(n) == [i \in 1..n |-> SP]

IsSpace(c) == c \in {SP, NL}

RECURSIVE LStrip(_)
LStrip(s) == IF s # <<>> /\ IsSpace(Head(s)) THEN LStrip(Tail(s)) ELSE s

RECURSIVE RStrip(_)
RStrip(s) ==
  IF s # <<>> /\ IsSpace(s[Len(s)]) THEN RStrip(SubSeq(s, 1, Len(s) - 1)) ELSE s

Strip(s) == RStrip(LStrip(s))

Replace(s, from, to) == [i \in 1..Len(s) |-> IF s[i] = from THEN to ELSE s[i]]

UpperCase == {"M", "F", "B"}
LowerCase == {"m", "y", "f", "b"}

LowerChar(c) ==
  CASE c = "M" -> "m" [] c = "F" -> "f" [] c = "B" -> "b" [] OTHER -> c

UpperChar(c) ==
  CASE c = "m" -> "M" [] c = "f" -> "F" [] c = "b" -> "B" [] c = "y" -> "Y"
    [] OTHER -> c

IsCased(c) == c \in UpperCase \cup LowerCase \cup {"Y"}

Lower(s) == [i \in 1..Len(s) |-> LowerChar(s[i])]

\* str.title(): a cased character is upper-cased when it follows an uncased
\* one (or starts the text) and lower-cased otherwise.
Title(s) ==
  [i \in 1..Len(s) |->
     IF i = 1 \/ ~IsCased(s[i - 1]) THEN UpperChar(s[i]) ELSE LowerChar(s[i])]

indent(text, indentation) ==
  LET lines == Split(text, NL)
  IN  Join([i \in 1..Len(lines) |-> Spaces(indentation) \o lines[i]], NL)

beautify(name) == Title(Replace(Replace(name, "_", SP), "-", SP))

latex_template(name, title) ==
  Join(<< <<"\\begin{figure}[ht]">>,
          Spaces(4) \o <<"\\centering">>,
          Spaces(4) \o <<"\\incfig{">> \o name \o <<"}">>,
          Spaces(4) \o <<"\\caption{">> \o title \o <<"}">>,
          Spaces(4) \o <<"\\label{fig:">> \o name \o <<"}">>,
          <<"\\end{figure}">> >>, NL)

(***************************************************************************)
(* Paths.  A figure path is [parent, stem, suffix]; a directory is text.   *)
(***************************************************************************)
user_dir == <<"/", "c">>
RootsName == <<"r">>
roots_file_path == [parent |-> user_dir, stem |-> RootsName, suffix |-> ""]
template_path == [parent |-> user_dir, stem |-> <<"t">>, suffix |-> ".svg"]

\* str(path)
PathStr(p) ==
  p.parent \o <<"/">> \o p.stem \o (IF p.suffix = "" THEN <<>> ELSE <<p.suffix>>)

\* The directories handed to `create` and `edit` (Path(root).absolute()).
\* The third is one directory whose name holds a line break.
RootArgs == { <<"/", "a">>, <<"/", "b">>, <<"/", "a", NL, "/", "b">> }

\* The titles handed to `create`.
TitleArgs == { <<"M", "y", SP, "F">>, <<SP, SP, "m", "y", SP, "f">>, <<"b">> }

\* The title used in the runs in which the title does not matter.
MainTitles == { <<"M", "y", SP, "F">> }

(***************************************************************************)
(* The registry                                                            *)
(***************************************************************************)
get_roots(text) == SelectSeq(Split(text, NL), LAMBDA root : root # <<>>)

add_root_text_path_only(roots, path) == path

\* add_root after its read: the text written, given the roots read.
add_root_text(roots, path) == Join(Append(roots, path), NL)

(***************************************************************************)
(* The version probe (maybe_recompile_figure, lines 170-185)               *)
(***************************************************************************)
Digits == {"0", "1", "2", "3", "4", "5", "6", "7", "8", "9"}

DigitValue(c) ==
  CASE c = "0" -> 0 [] c = "1" -> 1 [] c = "2" -> 2 [] c = "3" -> 3
    [] c = "4" -> 4 [] c = "5" -> 5 [] c = "6" -> 6 [] c = "7" -> 7
    [] c = "8" -> 8 [] c = "9" -> 9

DigitChar(n) == CHOOSE c \in Digits : DigitValue(c) = n

RECURSIVE ToDigits(_)
\* How the editor prints a number.
ToDigits(n) ==
  IF n < 10 THEN <<DigitChar(n)>> ELSE ToDigits(n \div 10) \o <<DigitChar(n % 10)>>

\* What `inkscape --version` prints for a build: "Inkscape " then the dotted
\* components then the build's suffix.
version_output(build) ==
  <<"I", "n", "k", "s", "c", "a", "p", "e", SP>>
    \o Join([i \in 1..Len(build.comps) |-> ToDigits(build.comps[i])], ".")
    \o build.suffix

IsVersionChar(c) == c \in Digits \cup {"."}

\* re.findall(r"[0-9.]+", text)[0]: the first maximal run of digits and
\* dots; <<>> stands for "no match" (findall never returns an empty match).
FirstRun(text) ==
  IF \A i \in 1..Len(text) : ~IsVersionChar(text[i]) THEN <<>>
  ELSE LET a == CHOOSE i \in 1..Len(text) :
                  IsVersionChar(text[i]) /\ \A j \in 1..(i - 1) : ~IsVersionChar(text[j])
           b == CHOOSE i \in a..Len(text) :
                  /\ \A j \in a..i : IsVersionChar(text[j])
                  /\ (i = Len(text) \/ ~IsVersionChar(text[i + 1]))
       IN  SubSeq(text, a, b)

RECURSIVE ParseInt(_)
\* int(part) for a part made of digits
ParseInt(part) ==
  IF Len(part) = 1 THEN DigitValue(part[1])
  ELSE 10 * ParseInt(SubSeq(part, 1, Len(part) - 1)) + DigitValue(part[Len(part)])

\* Lines 179-185: [ok, v] with the padded list, or [ok = FALSE, err].
parse_version(text) ==
  LET run == FirstRun(text)
      parts == Split(run, ".")
  IN  IF run = <<>> THEN [ok |-> FALSE, err |-> "IndexError", v |-> <<>>]
      ELSE IF \E i \in 1..Len(parts) : parts[i] = <<>>
      THEN [ok |-> FALSE, err |-> "ValueError", v |-> <<>>]
      ELSE LET nums == [i \in 1..Len(parts) |-> ParseInt(parts[i])]
           IN  [ok |-> TRUE, err |-> "",
                v |-> nums \o [i \in 1..(3 - Len(nums)) |-> 0]]

RECURSIVE ListLess(_, _)
\* Python's a < b on lists: the first differing element decides, and a
\* proper prefix is smaller.
ListLess(a, b) ==
  IF b = <<>> THEN FALSE
  ELSE IF a = <<>> THEN TRUE
  ELSE IF Head(a) # Head(b) THEN Head(a) < Head(b)
  ELSE ListLess(Tail(a), Tail(b))

export_form_inclusive(version) ==
  IF ListLess(version, <<1, 0, 0>>) \/ version = <<1, 0, 0>> THEN "legacy" ELSE "modern"

\* Line 188
export_form(version) == IF ListLess(version, <<1, 0, 0>>) THEN "legacy" ELSE "modern"

\* Lines 189-210
export_command(form, filepath, pdf_path) ==
  IF form = "legacy"
  THEN <<"inkscape", "--export-area-page", "--export-dpi", "300",
         "--export-pdf", pdf_path, filepath>>
  ELSE <<"inkscape", filepath, "--export-area-page", "--export-dpi", "300",
         "--export-type=pdf", "--export-filename", pdf_path>>

clipboard_after_success_only(clip, name, rc) ==
  IF rc # 0 THEN clip ELSE latex_template(name, beautify(name))

\* Lines 218-225: the clipboard after the export command returned rc.
clipboard_after(clip, name, rc) == latex_template(name, beautify(name))

\* maybe_recompile_figure(filepath) with `build` installed and the export
\* command exiting with rc: what it did.
maybe_recompile_figure(filepath, build, rc, clip) ==
  IF filepath.suffix # ".svg"
  THEN [kind |-> "skip", path |-> filepath, clip |-> clip]
  ELSE LET pdf_path == [filepath EXCEPT !.suffix = ".pdf"]
           name == filepath.stem
           probe == parse_version(version_output(build))
       IN  IF ~probe.ok
           THEN [kind |-> "raise", path |-> filepath, err |-> probe.err,
                 build |-> build, clip |-> clip]
           ELSE [kind |-> "export", path |-> filepath, build |-> build,
                 version |-> probe.v, form |-> export_form(probe.v),
                 command |-> export_command(export_form(probe.v),
                                            PathStr(filepath), PathStr(pdf_path)),
                 pdf |-> pdf_path, rc |-> rc,
                 clip |-> clipboard_after(clip, name, rc)]

(***************************************************************************)
(* The installed editor builds                                             *)
(***************************************************************************)
VersionNumbers == {0, 1, 92}

VersionComps ==
  UNION {[1..n -> VersionNumbers] : n \in 1..3}

\* What follows the dotted components in the editor's version line.
Suffixes ==
  { <<>>, <<"-", "d", "e", "v">>, <<"r", "c", "1">>, <<".", "r", "c">> }

Builds == [comps : VersionComps, suffix : Suffixes]

\* The build of the runs in which the version does not matter.
MainBuilds == { [comps |-> <<1, 1>>, suffix |-> <<"-", "d", "e", "v">>] }

(***************************************************************************)
(* State                                                                   *)
(***************************************************************************)
NoFigures == [f \in {} |-> "template"]

NoPath == [parent |-> <<>>, stem |-> <<>>, suffix |-> ""]

NewCli ==
  [pc |-> "new", cmd |-> "", title |-> <<>>, figures |-> <<>>,
   target |-> NoPath, roots |-> <<>>, out |-> <<>>]

\* After module import on a fresh configuration directory (lines 84-99): the
\* registry file exists and is empty.
InitFiles ==
  /\ roots_file = <<>>
  /\ svg = NoFigures
  /\ cli = [p \in Procs |-> NewCli]
  /\ clipboard = <<>>
  /\ launched = {}
  /\ saves = 0
  /\ did = [kind |-> "none"]

InitDaemons(running) ==
  /\ dpc = [b \in Backends |-> IF b \in running THEN "start" ELSE "off"]
  /\ droots = [b \in Backends |-> <<>>]
  /\ watches = [b \in Backends |-> {}]
  /\ queue = [b \in Backends |-> <<>>]
  /\ log = [b \in Backends |-> <<>>]

\* `watch` picks one backend by platform (lines 137-140).
Init ==
  /\ InitFiles
  /\ inkscape \in MainBuilds
  /\ \E b \in Backends : InitDaemons({b})

(***************************************************************************)
(* Change notifications                                                    *)
(***************************************************************************)
\* A daemon holding a watch on the file's directory or on the file itself is
\* told of a write to the file.
Covers(b, file) == file.parent \in watches[b] \/ PathStr(file) \in watches[b]

Notified(q, file) ==
  [b \in Backends |-> IF Covers(b, file) THEN Append(q[b], file) ELSE q[b]]

\* When two daemons are run side by side to compare them, a change is made
\* only while both wait with nothing pending, so that both are fed the same
\* sequence of changes.
SideBySide == \A b \in Backends : dpc[b] # "off"

FeedOK == SideBySide => \A b \in Backends : dpc[b] = "wait" /\ queue[b] = <<>>

(***************************************************************************)
(* create and edit                                                         *)
(***************************************************************************)
MayStart(p) == cli[p].pc = "new" /\ (IF p = 1 THEN TRUE ELSE cli[p - 1].pc # "new")

\* Lines 336-341, the text printed (print's closing line break left out).
create_output(figure_path, title) ==
  LET leading_spaces == Len(title) - Len(LStrip(title))
  IN  indent(latex_template(figure_path.stem, title), leading_spaces)

target_exists_unchecked(figure_path) == FALSE

\* Line 330
target_exists(figure_path) == figure_path \in DOMAIN svg

\* Line 112
already_listed(roots, path) == path \in Range(roots)

\* create(title, root), lines 321-335, up to and including add_root's read;
\* when the root is already listed add_root returns and lines 336-341 follow.
Create(p, title_arg, root) ==
  /\ MayStart(p)
  /\ FeedOK
  /\ LET title == Strip(title_arg)
         file_stem == Lower(Replace(title, SP, "-"))
         figure_path == [parent |-> root, stem |-> file_stem, suffix |-> ".svg"]
         roots == get_roots(roots_file)
         me == [cli[p] EXCEPT !.cmd = "create", !.title = title_arg,
                              !.figures = root, !.target = figure_path]
     IN  IF target_exists(figure_path)
         THEN /\ cli' = [cli EXCEPT ![p] =
                           [me EXCEPT !.pc = "done", !.out = title \o <<SP, "2">>]]
              /\ UNCHANGED <<svg, queue, launched>>
         ELSE /\ svg' = (figure_path :> "template") @@ svg
              /\ queue' = Notified(queue, figure_path)
              /\ IF already_listed(roots, root)
                 THEN /\ launched' = launched \cup {figure_path}
                      /\ cli' = [cli EXCEPT ![p] =
                                   [me EXCEPT !.pc = "done", !.roots = roots,
                                              !.out = create_output(figure_path, title)]]
                 ELSE /\ launched' = launched
                      /\ cli' = [cli EXCEPT ![p] =
                                   [me EXCEPT !.pc = "write", !.roots = roots]]
  /\ UNCHANGED <<roots_file, inkscape, clipboard, saves, dpc, droots, watches, log, did>>

\* edit(root), lines 357-368, up to and including add_root's read; `choice`
\* is what the picker returned.
Edit(p, root, choice) ==
  /\ MayStart(p)
  /\ (IF choice = NoPath THEN TRUE ELSE choice \in DOMAIN svg /\ choice.parent = root)
  /\ LET roots == get_roots(roots_file)
         me == [cli[p] EXCEPT !.cmd = "edit", !.figures = root, !.target = choice]
     IN  IF choice = NoPath
         THEN /\ cli' = [cli EXCEPT ![p] = [me EXCEPT !.pc = "done"]]
              /\ UNCHANGED <<launched, clipboard>>
         ELSE IF already_listed(roots, root)
         THEN /\ cli' = [cli EXCEPT ![p] = [me EXCEPT !.pc = "done", !.roots = roots]]
              /\ launched' = launched \cup {choice}
              /\ clipboard' = latex_template(choice.stem, beautify(choice.stem))
         ELSE /\ cli' = [cli EXCEPT ![p] = [me EXCEPT !.pc = "write", !.roots = roots]]
              /\ UNCHANGED <<launched, clipboard>>
  /\ UNCHANGED <<roots_file, svg, inkscape, saves, dpc, droots, watches, queue, log, did>>

\* add_root's write (lines 115-116) and what follows the call: lines 336-341
\* of create, lines 369-373 of edit.
AddRootWrite(p) ==
  /\ cli[p].pc = "write"
  /\ FeedOK
  /\ roots_file' = add_root_text(cli[p].roots, cli[p].figures)
  /\ queue' = Notified(queue, roots_file_path)
  /\ launched' = launched \cup {cli[p].target}
  /\ IF cli[p].cmd = "create"
     THEN /\ cli' = [cli EXCEPT ![p].pc = "done",
                                ![p].out = create_output(cli[p].target, Strip(cli[p].title))]
          /\ UNCHANGED clipboard
     ELSE /\ cli' = [cli EXCEPT ![p].pc = "done"]
          /\ clipboard' = latex_template(cli[p].target.stem, beautify(cli[p].target.stem))
  /\ UNCHANGED <<svg, inkscape, saves, dpc, droots, watches, log, did>>

(***************************************************************************)
(* The user                                                                *)
(***************************************************************************)
\* The user saves a figure in the editor.
UserSave(f) ==
  /\ saves < MaxSaves
  /\ FeedOK
  /\ f \in DOMAIN svg
  /\ svg' = [svg EXCEPT ![f] = "edited"]
  /\ queue' = Notified(queue, f)
  /\ saves' = saves + 1
  /\ UNCHANGED <<roots_file, cli, inkscape, clipboard, launched, dpc, droots, watches, log, did>>

\* The user replaces <user_dir>/template.svg.
TemplateSave ==
  /\ saves < MaxSaves
  /\ FeedOK
  /\ queue' = Notified(queue, template_path)
  /\ saves' = saves + 1
  /\ UNCHANGED <<roots_file, svg, cli, inkscape, clipboard, launched, dpc, droots, watches, log, did>>

\* The user installs another build of the editor.
Upgrade(build) ==
  /\ build # inkscape
  /\ inkscape' = build
  /\ UNCHANGED <<roots_file, svg, cli, clipboard, launched, saves,
                 dpc, droots, watches, queue, log, did>>

(***************************************************************************)
(* The watch daemons                                                       *)
(***************************************************************************)
\* Lines 238 and 278
DaemonRead(b) ==
  /\ dpc[b] = "start"
  /\ droots' = [droots EXCEPT ![b] = get_roots(roots_file)]
  /\ dpc' = [dpc EXCEPT ![b] = "arm"]
  /\ UNCHANGED <<roots_file, svg, cli, inkscape, clipboard, launched, saves,
                 watches, queue, log, did>>

\* Lines 242-251: a fresh Inotify with a watch on the registry file and on
\* each root read.  Line 285: a fresh fswatch on the roots read and on the
\* configuration directory.
armed(b, roots) ==
  IF b = "inotify" THEN {PathStr(roots_file_path)} \cup Range(roots)
  ELSE Range(roots) \cup {user_dir}

DaemonArm(b) ==
  /\ dpc[b] = "arm"
  /\ watches' = [watches EXCEPT ![b] = armed(b, droots[b])]
  /\ queue' = [queue EXCEPT ![b] = <<>>]
  /\ dpc' = [dpc EXCEPT ![b] = "wait"]
  /\ UNCHANGED <<roots_file, svg, cli, inkscape, clipboard, launched, saves,
                 droots, log, did>>

\* Line 260: the event's `path` is the watched path (the file for a file
\* watch, the directory for a directory watch).  Line 298: the line read is
\* the changed file's path.
is_roots_event(b, file) ==
  IF b = "inotify"
  THEN (IF PathStr(file) \in watches[b] THEN PathStr(file) ELSE file.parent)
         = PathStr(roots_file_path)
  ELSE PathStr(file) = PathStr(roots_file_path)

\* One turn of the event loop, lines 253-273 and 291-303.
DaemonEvent(b) ==
  /\ dpc[b] = "wait"
  /\ queue[b] # <<>>
  /\ LET file == Head(queue[b])
         rest == [queue EXCEPT ![b] = Tail(queue[b])]
     IN  IF is_roots_event(b, file)
         THEN /\ dpc' = [dpc EXCEPT ![b] = "start"]
              /\ watches' = [watches EXCEPT ![b] = {}]
              /\ queue' = [queue EXCEPT ![b] = <<>>]
              /\ log' = [log EXCEPT ![b] = Append(log[b], [kind |-> "rebuild"])]
              /\ UNCHANGED <<clipboard, did>>
         ELSE \E rc \in {0, 1} :
                LET done == maybe_recompile_figure(file, inkscape, rc, clipboard)
                IN  /\ did' = done
                    /\ clipboard' = done.clip
                    /\ watches' = watches
                    /\ dpc' = [dpc EXCEPT ![b] = IF done.kind = "raise" THEN "crashed" ELSE "wait"]
                    /\ log' = [log EXCEPT ![b] =
                                 IF done.kind = "skip" THEN log[b] ELSE Append(log[b], done)]
                    /\ queue' = IF done.kind = "export" /\ rc = 0
                                THEN Notified(rest, done.pdf) ELSE rest
  /\ UNCHANGED <<roots_file, svg, cli, inkscape, launched, saves, droots>>

\* maybe_recompile_figure(file) called on its own, the export command exiting
\* with rc.
Recompile(file, rc) ==
  /\ did' = maybe_recompile_figure(file, inkscape, rc, clipboard)
  /\ clipboard' = did'.clip
  /\ UNCHANGED <<roots_file, svg, cli, inkscape, launched, saves,
                 dpc, droots, watches, queue, log>>

(***************************************************************************)
(* Specifications                                                          *)
(***************************************************************************)
CliStep ==
  \E p \in Procs :
    \/ \E t \in MainTitles, r \in RootArgs : Create(p, t, r)
    \/ \E r \in RootArgs, f \in DOMAIN svg \cup {NoPath} : Edit(p, r, f)
    \/ AddRootWrite(p)

CliAnyStep ==
  \E p \in Procs :
    \/ \E t \in TitleArgs, r \in RootArgs : Create(p, t, r)
    \/ \E r \in RootArgs, f \in DOMAIN svg \cup {NoPath} : Edit(p, r, f)
    \/ AddRootWrite(p)

UserStep ==
  \/ \E f \in DOMAIN svg : UserSave(f)
  \/ TemplateSave

DaemonStep ==
  \E b \in Backends :
    \/ DaemonRead(b)
    \/ DaemonArm(b)
    \/ DaemonEvent(b)

Next == CliStep \/ UserStep \/ DaemonStep

\* One daemon, the commands and the user.
Spec == Init /\ [][Next]_vars

\* Both daemons side by side, fed the same changes.
InitEquiv ==
  /\ InitFiles
  /\ inkscape \in MainBuilds
  /\ InitDaemons(Backends)

SpecEquiv == InitEquiv /\ [][Next]_vars

\* The commands and one daemon, the user idle.
NextRegistry == CliStep \/ DaemonStep

SpecRegistry == Init /\ [][NextRegistry]_vars

\* The commands with every title, and the user saving figures; no daemon.
InitCli ==
  /\ InitFiles
  /\ inkscape \in MainBuilds
  /\ InitDaemons({})

NextCli == CliAnyStep \/ \E f \in DOMAIN svg : UserSave(f)

SpecCli == InitCli /\ [][NextCli]_vars

\* A registry and a figure left by an earlier `create`, one daemon and the user.
FirstFigure == [parent |-> <<"/", "a">>, stem |-> <<"m", "y", "-", "f">>, suffix |-> ".svg"]

InitWatch ==
  /\ roots_file = <<"/", "a">>
  /\ svg = (FirstFigure :> "template")
  /\ cli = [p \in Procs |-> NewCli]
  /\ clipboard = <<>>
  /\ launched = {}
  /\ saves = 0
  /\ did = [kind |-> "none"]
  /\ inkscape \in MainBuilds
  /\ \E b \in Backends : InitDaemons({b})

NextWatch == UserStep \/ DaemonStep

SpecWatch == InitWatch /\ [][NextWatch]_vars

\* The exporter on its own, over every build.
ProbeFiles ==
  { FirstFigure, [FirstFigure EXCEPT !.suffix = ".pdf"] }

InitProbe ==
  /\ InitFiles
  /\ inkscape \in Builds
  /\ InitDaemons({})

NextProbe ==
  \/ \E build \in Builds : Upgrade(build)
  \/ \E file \in ProbeFiles, rc \in {0, 1} : Recompile(file, rc)

SpecProbe == InitProbe /\ [][NextProbe]_vars

(***************************************************************************)
(* Properties                                                              *)
(***************************************************************************)
Last(s) == s[Len(s)]

Occurrences(s, x) == Cardinality({i \in 1..Len(s) : s[i] = x})

Listed == Range(get_roots(roots_file))

\* The daemon b made an export in this step.
Exported(b) == log'[b] # log[b] /\ log'[b] # <<>> /\ Last(log'[b]).kind = "export"

Snippet(path) == latex_template(path.stem, beautify(path.stem))

\* C1: hot reload.  Whenever a watch daemon waits for an event with no
\* notification pending, it holds the watches a rebuild on the registry's
\* current content gives: every root add_root has written is watched, also
\* one written between the daemon's read of the roots and its arming.
C1_HotReload ==
  \A b \in Backends :
    (dpc[b] = "wait" /\ queue[b] = <<>>) => watches[b] = armed(b, get_roots(roots_file))

\* C2: no export for a path outside the registered roots.  In every step in
\* which a watch daemon (either backend) runs the export command, the changed
\* file lies in a root listed in the registry.
C2_NoExportOutsideRoots ==
  [][\A b \in Backends : Exported(b) => Last(log'[b]).path.parent \in Listed]_vars

\* The add_root call of process p returns in this step (`create` that found
\* its target and `edit` with nothing selected make no call).
AddRootReturns(p) ==
  /\ cli[p].pc # "done" /\ cli'[p].pc = "done"
  /\ cli'[p].target # NoPath
  /\ ~(cli[p].pc = "new" /\ cli'[p].cmd = "create" /\ cli'[p].target \in DOMAIN svg)

\* C3: add_root is idempotent.  When the registry is as an add_root(path) of
\* one process left it and a second add_root(path), which has read it so,
\* returns, the file is unchanged and path is listed exactly once.
C3_AddRootIdempotent ==
  [][\A p, q \in Procs :
       ( /\ p # q
         /\ cli[q].pc = "done" /\ cli[q].target # NoPath
         /\ roots_file = add_root_text(cli[q].roots, cli[q].figures)
         /\ AddRootReturns(p)
         /\ cli'[p].figures = cli[q].figures
         /\ cli'[p].roots = get_roots(roots_file) ) =>
          /\ roots_file' = roots_file
          /\ Occurrences(get_roots(roots_file'), cli[q].figures) = 1]_vars

\* <root>/<title stripped, spaces to hyphens, lower-cased>.svg
SlugPath(title, root) ==
  [parent |-> root, stem |-> Lower(Replace(Strip(title), SP, "-")), suffix |-> ".svg"]

\* C4: duplicate create.  A `create` whose target file already exists prints
\* the title followed by " 2" and does nothing else: no figure is written or
\* overwritten, the registry is not touched, the editor is not launched, no
\* snippet is printed.
C4_DuplicateCreate ==
  [][\A p \in Procs :
       ( /\ cli[p].pc = "new" /\ cli'[p].cmd = "create"
         /\ SlugPath(cli'[p].title, cli'[p].figures) \in DOMAIN svg ) =>
          /\ cli'[p].out = Strip(cli'[p].title) \o <<SP, "2">>
          /\ cli'[p].pc = "done"
          /\ svg' = svg
          /\ roots_file' = roots_file
          /\ launched' = launched
          /\ clipboard' = clipboard]_vars

\* The second of two creates with the same title and root found the figure
\* of the first, which the user had edited meanwhile, and left it.
C4_Witness ==
  \E p, q \in Procs :
    /\ p # q
    /\ cli[q].pc = "done" /\ cli[q].cmd = "create"
    /\ cli[q].out = create_output(cli[q].target, Strip(cli[q].title))
    /\ cli[p].pc = "done" /\ cli[p].cmd = "create"
    /\ cli[p].title = cli[q].title /\ cli[p].figures = cli[q].figures
    /\ cli[p].out = Strip(cli[p].title) \o <<SP, "2">>
    /\ svg[cli[p].target] = "edited"

\* (major, minor, patch) < (1, 0, 0) in lexicographic order
Before100(t) ==
  \/ t[1] < 1
  \/ t[1] = 1 /\ t[2] < 0
  \/ t[1] = 1 /\ t[2] = 0 /\ t[3] < 0

\* C5: export command selection.  Every export probes the build installed at
\* that call, and runs the legacy command (--export-pdf <pdf> <svg>) if and
\* only if the version parsed is below (1,0,0) in lexicographic order, the
\* modern command (<svg> ... --export-type=pdf --export-filename <pdf>)
\* otherwise.
C5_CommandSelection ==
  [][(did' # did /\ did'.kind = "export") =>
       LET c == did'.command
           svgp == PathStr(did'.path)
           pdfp == PathStr([did'.path EXCEPT !.suffix = ".pdf"])
       IN  /\ did'.build = inkscape
           /\ did'.version = parse_version(version_output(inkscape)).v
           /\ did'.form = (IF Before100(did'.version) THEN "legacy" ELSE "modern")
           /\ IF Before100(did'.version)
              THEN Len(c) = 7 /\ c[5] = "--export-pdf" /\ c[6] = pdfp /\ c[7] = svgp
              ELSE /\ Len(c) = 8 /\ c[2] = svgp /\ c[6] = "--export-type=pdf"
                   /\ c[7] = "--export-filename" /\ c[8] = pdfp]_vars

\* An export with a build installed that reports exactly 1.0.0: the modern
\* command.
C5_Witness ==
  /\ did.kind = "export"
  /\ did.version = <<1, 0, 0>>
  /\ did.form = "modern"
  /\ did.command[6] = "--export-type=pdf"

\* The components a build reports, right-padded with zeros to three.
Padded(comps) == comps \o [i \in 1..(3 - Len(comps)) |-> 0]

\* C6: version parsing.  For every build whose version line is
\* <int>(.<int>){0,2}<suffix>, the probe does not raise and yields exactly
\* the three integers given, zeros added on the right.
C6_ParseThreeInts ==
  did.kind \in {"export", "raise"} =>
    /\ did.kind = "export"
    /\ Len(did.version) = 3
    /\ did.version = Padded(did.build.comps)

\* C7: `create` prints the snippet with every line indented by as many
\* spaces as the title argument had leading whitespace characters.
C7_SnippetIndented ==
  \A p \in Procs :
    (cli[p].pc = "done" /\ cli[p].cmd = "create" /\ cli[p].target \in launched) =>
      LET given == cli[p].title
          lines == Split(cli[p].out, NL)
          plain == Split(latex_template(cli[p].target.stem, Strip(given)), NL)
      IN  /\ Len(lines) = Len(plain)
          /\ \A i \in 1..Len(lines) :
               lines[i] = Spaces(Len(given) - Len(LStrip(given))) \o plain[i]

\* C8: export failure is not fatal.  In every step in which a watch daemon
\* runs the export command, whatever its exit code, the clipboard is left
\* holding the snippet of that figure, and the daemon goes on waiting for
\* events with the watches it had.
C8_ExportFailureNonFatal ==
  [][\A b \in Backends :
       Exported(b) =>
          /\ clipboard' = Snippet(Last(log'[b]).path)
          /\ did'.kind = "export"
          /\ dpc'[b] = "wait"
          /\ watches'[b] = watches[b]
          /\ watches'[b] # {}]_vars

\* A failed export, then the next event handled: the clipboard holds the
\* later figure's snippet and the daemon waits.
C8_Witness ==
  \E b \in Backends :
    /\ Len(log[b]) >= 2
    /\ log[b][1].kind = "export" /\ log[b][1].rc # 0
    /\ log[b][2].kind = "export"
    /\ dpc[b] = "wait"
    /\ clipboard = Snippet(log[b][2].path)

\* C9 as stated: a root once in the registry stays in it, over every step of
\* every interleaving of the commands and the daemon.
C9_RootsNeverRemoved ==
  [][\A r \in Listed : r \in Range(get_roots(roots_file'))]_vars

\* The write of add_root by process p, made on a read that is still current.
FreshWrite(p) ==
  (cli[p].pc = "write" /\ cli'[p].pc = "done") => cli[p].roots = get_roots(roots_file)

\* C9 amended: a root once in the registry stays in it over every step,
\* reads of the daemon included, except over the write of an add_root whose
\* read is no longer current (another process wrote the file in between).
C9_RootsKeptByFreshWrites ==
  [][(\A p \in Procs : FreshWrite(p)) =>
       \A r \in Listed : r \in Range(get_roots(roots_file'))]_vars

\* Two roots registered one after the other, both listed, the daemon having
\* read them.
C9_Witness ==
  /\ Cardinality(Listed) >= 2
  /\ \A p \in Procs : cli[p].pc = "done"
  /\ \E b \in Backends : Len(droots[b]) >= 2

\* What a daemon did, the exit codes left out.
Trace(b) ==
  [i \in 1..Len(log[b]) |->
     IF log[b][i].kind = "export"
     THEN [kind |-> "export", path |-> log[b][i].path]
     ELSE [kind |-> log[b][i].kind]]

\* C10: backend equivalence.  Started on the same registry and fed the same
\* changes, the two daemons have made the same exports in the same order and
\* rebuilt their watches at the same points whenever both wait with nothing
\* pending, and neither has exported the registry file.
C10_BackendsAgree ==
  /\ (\A b \in Backends : dpc[b] = "wait" /\ queue[b] = <<>>) =>
        Trace("inotify") = Trace("fswatch")
  /\ \A b \in Backends : \A i \in 1..Len(log[b]) :
        log[b][i].kind = "export" => log[b][i].path # roots_file_path

====
